---- MODULE Spec2Model ----
(***************************************************************************)
(* Booking engine and payment coordinator of alx_travel_app.               *)
(*                                                                         *)
(* Spec          the booking endpoints of BookingViewSet, one request at a *)
(*               time (create, update, confirm, cancel, status update, destroy). *)
(* LifecycleSpec the status lifecycle alone: create with the default       *)
(*               status, confirm, cancel, status update.                   *)
(* EditSpec      creates, and updates of dates and listing, alone.         *)
(* RaceSpec      concurrent create-booking requests: validate() and save() *)
(*               of one request are separate steps.                        *)
(* PaySpec       InitiatePaymentView / VerifyPaymentView, with concurrent  *)
(*               initiate requests (check, gateway call, insert).          *)
(* NotifySpec    the payment views, one request at a time, and the         *)
(*               workers running the confirmation tasks.                   *)
(*                                                                         *)
(* The two Booking schemas of the repository (start_date/end_date and      *)
(* check_in_date/check_out_date, guest and user, 'cancelled' and           *)
(* 'canceled') are one entity here, with the serializer's field names.     *)
(***************************************************************************)
EXTENDS Integers, Sequences, FiniteSets, TLC

\* ------------------------------------------------------------------ bounds
MaxBookings == 2
MaxDay == 3
NumProcs == 2
MaxTx == 3
MaxEnqueued == 2
MaxTasks == 2

\* ------------------------------------------------------- program constants
MaxSpanDays == 365

\* a field the request does not carry: data.get(...) is None
NoValue == "none"
NoDate == -1

\* alice and carol host listings, bob books, sam is staff, dave is none of these.
Users == {"alice", "bob", "carol", "sam", "dave"}
\* user.is_staff
Staff == {"sam"}
\* request.user of the create requests
Bookers == {"bob"}

\* The listing catalog: fixed rows of the Listing table.
Listings == {"L1", "L2", "L3"}
ListingRow(l) ==
    CASE l = "L1" -> [host |-> "alice", availability |-> TRUE, price_per_night |-> 2, max_guests |-> 4]
      [] l = "L2" -> [host |-> "carol", availability |-> TRUE, price_per_night |-> 3, max_guests |-> 2]
      [] OTHER    -> [host |-> "alice", availability |-> FALSE, price_per_night |-> 5, max_guests |-> 4]
\* a listing_id no row has
UnknownListing == "L9"

\* Dates, counted in days from today: validate_start_date and
\* validate_end_date accept every one of them (none is in the past).
Days == 1..MaxDay
STATUS_CHOICES == {"pending", "confirmed", "cancelled", "completed"}
\* The status filter that counts a cancelled booking too.
ActiveStatuses_WithCancelled == {"confirmed", "pending", "cancelled"}
\* status__in=['confirmed', 'pending']
ActiveStatuses == {"confirmed", "pending"}

\* The row a deleted booking leaves: its id is never reused.
Deleted ==
    [listing |-> NoValue, guest |-> NoValue, start_date |-> 0, end_date |-> 0,
     status |-> "deleted", total_price |-> 0]

VARIABLES bookings, result, inflight, payments, initiating, nextTx, enqueued, tasks

vars == <<bookings, result, inflight, payments, initiating, nextTx, enqueued, tasks>>
payVars == <<payments, initiating, nextTx, enqueued, tasks>>

BookingIds == 1..Len(bookings)
Live(i) == i \in BookingIds /\ bookings[i].status # "deleted"

\* --------------------------------------------------------- booking engine

\* Booking.duration_nights
duration_nights(b) == b.end_date - b.start_date

\* Booking.calculate_total_price
calculate_total_price(b) ==
    [b EXCEPT !.total_price = ListingRow(b.listing).price_per_night * duration_nights(b)]

\* The filter with the closed-interval test (start_date__lte, end_date__gte).
conflicting_bookings_Closed(listing, start_date, end_date) ==
    {i \in BookingIds :
        /\ bookings[i].listing = listing
        /\ bookings[i].status \in ActiveStatuses
        /\ bookings[i].start_date <= end_date
        /\ bookings[i].end_date >= start_date}

\* The queryset filter of BookingSerializer.validate: the rows of one listing
\* with an active status whose dates intersect [start_date, end_date).
conflicting_bookings(listing, start_date, end_date) ==
    {i \in BookingIds :
        /\ bookings[i].listing = listing
        /\ bookings[i].status \in ActiveStatuses
        /\ bookings[i].start_date < end_date
        /\ bookings[i].end_date > start_date}

\* BookingSerializer.validate: data holds NoValue for a field the request does
\* not carry; instance is the id of the booking being updated, 0 on create.
validate(data, instance) ==
    LET start_date == data.start_date
        end_date == data.end_date
        listing_id == data.listing_id
        dates == start_date # NoDate /\ end_date # NoDate
    IN  IF dates /\ start_date >= end_date THEN "InvalidDateRange"
        ELSE IF dates /\ end_date - start_date > MaxSpanDays THEN "RangeTooLong"
        ELSE IF listing_id = NoValue THEN "ok"
        ELSE IF listing_id \notin Listings THEN "InvalidListing"
        ELSE IF ~ListingRow(listing_id).availability THEN "ListingUnavailable"
        ELSE IF dates /\ conflicting_bookings(listing_id, start_date, end_date) \ {instance} # {}
             THEN "DateConflict"
        ELSE "ok"

\* BookingViewSet.get_queryset: the bookings get_object() finds for a user.
Visible(i, user) ==
    /\ Live(i)
    /\ \/ user \in Staff
       \/ bookings[i].guest = user
       \/ ListingRow(bookings[i].listing).host = user

\* What a request body can hold. validate() reads neither data.status nor the
\* instance's status and update() sets each field on its own, so a PATCH with
\* dates and a status acts as the PATCH of the dates followed by the PATCH of
\* the status: the update requests carry the one or the other.
CreateRequests ==
    [listing_id : Listings \cup {UnknownListing}, start_date : Days, end_date : Days,
     status : STATUS_CHOICES \cup {NoValue}]
UpdateRequests ==
    [listing_id : Listings \cup {NoValue}, start_date : Days \cup {NoDate},
     end_date : Days \cup {NoDate}, status : {NoValue}]
    \cup [listing_id : {NoValue}, start_date : {NoDate}, end_date : {NoDate},
          status : STATUS_CHOICES]
\* request.user of the update, status-update and delete requests: the guest
\* and a user get_queryset shows no booking.
UpdateActors == {"bob", "dave"}

\* BookingSerializer.create under perform_create: the row is inserted with the
\* request's user as guest and the model's default status, then priced.
create(user, data) ==
    calculate_total_price(
        [listing |-> data.listing_id, guest |-> user,
         start_date |-> data.start_date, end_date |-> data.end_date,
         status |-> IF data.status = NoValue THEN "pending" ELSE data.status,
         total_price |-> 0])

\* BookingSerializer.update: every field the request carries is set on the
\* instance; the price is recomputed only when a date changed.
update(instance, data) ==
    LET booking ==
            [listing |-> IF data.listing_id = NoValue THEN instance.listing ELSE data.listing_id,
             guest |-> instance.guest,
             start_date |-> IF data.start_date = NoDate THEN instance.start_date ELSE data.start_date,
             end_date |-> IF data.end_date = NoDate THEN instance.end_date ELSE data.end_date,
             status |-> IF data.status = NoValue THEN instance.status ELSE data.status,
             total_price |-> instance.total_price]
    IN  IF booking.start_date # instance.start_date \/ booking.end_date # instance.end_date
        THEN calculate_total_price(booking)
        ELSE booking

\* BookingStatusUpdateSerializer.validate_status: the table of valid transitions.
valid_transitions(current_status) ==
    CASE current_status = "pending" -> {"confirmed", "cancelled"}
      [] current_status = "confirmed" -> {"cancelled"}
      [] OTHER -> {}
StatusUpdateChoices == {"pending", "confirmed", "cancelled"}
validate_status(instance, value) ==
    IF value \notin valid_transitions(instance.status) THEN "IllegalTransition" ELSE "ok"

\* The host check written as cancel's guest-or-host check.
ConfirmAllowed_GuestToo(booking, user) ==
    booking.guest = user \/ ListingRow(booking.listing).host = user

\* BookingViewSet.confirm, after get_object(): the host check.
ConfirmAllowed(booking, user) == ListingRow(booking.listing).host = user
\* BookingViewSet.cancel, after get_object(): the guest-or-host check.
CancelAllowed(booking, user) ==
    ~(booking.guest # user /\ ListingRow(booking.listing).host # user)

Init ==
    /\ bookings = <<>>
    /\ result = "ok"
    /\ inflight = [p \in 1..NumProcs |-> [pc |-> "idle"]]
    /\ payments = <<>>
    /\ initiating = [p \in 1..NumProcs |-> [pc |-> "idle"]]
    /\ nextTx = 1
    /\ enqueued = <<>>
    /\ tasks = <<>>

\* Each handler below is the response it gives and the Booking table it
\* leaves, as a function of the table it finds and of the request.
NotFound == [result |-> "NotFound", bookings |-> bookings]

\* POST /bookings/: is_valid(), then perform_create.
perform_create(user, data) ==
    LET r == validate(data, 0)
    IN  [result |-> r,
         bookings |-> IF r = "ok" THEN Append(bookings, create(user, data)) ELSE bookings]

\* PUT/PATCH /bookings/{id}/: get_object(), is_valid(), serializer.save().
perform_update(i, user, data) ==
    IF ~Visible(i, user) THEN NotFound
    ELSE LET r == validate(data, i)
         IN  [result |-> r,
              bookings |-> IF r = "ok"
                           THEN [bookings EXCEPT ![i] = update(bookings[i], data)]
                           ELSE bookings]

\* POST /bookings/{id}/confirm/
confirm(i, user) ==
    IF ~Visible(i, user) THEN NotFound
    ELSE IF ~ConfirmAllowed(bookings[i], user)
    THEN [result |-> "Forbidden", bookings |-> bookings]
    ELSE [result |-> "ok", bookings |-> [bookings EXCEPT ![i].status = "confirmed"]]

\* POST /bookings/{id}/cancel/
cancel(i, user) ==
    IF ~Visible(i, user) THEN NotFound
    ELSE IF ~CancelAllowed(bookings[i], user)
    THEN [result |-> "Forbidden", bookings |-> bookings]
    ELSE [result |-> "ok", bookings |-> [bookings EXCEPT ![i].status = "cancelled"]]

\* PATCH /bookings/{id}/update_status/: BookingStatusUpdateSerializer on the
\* booking, and the validated status stored.
update_status(i, user, value) ==
    IF ~Visible(i, user) THEN NotFound
    ELSE LET r == validate_status(bookings[i], value)
         IN  [result |-> r,
              bookings |-> IF r = "ok" THEN [bookings EXCEPT ![i].status = value] ELSE bookings]

\* DELETE /bookings/{id}/
destroy(i, user) ==
    IF ~Visible(i, user) THEN NotFound
    ELSE [result |-> "ok", bookings |-> [bookings EXCEPT ![i] = Deleted]]

Respond(response) ==
    /\ result' = response.result
    /\ bookings' = response.bookings
    /\ UNCHANGED <<inflight, payVars>>

Create(user, data) == Len(bookings) < MaxBookings /\ Respond(perform_create(user, data))
Update(i, user, data) == Live(i) /\ Respond(perform_update(i, user, data))
Confirm(i, user) == Live(i) /\ Respond(confirm(i, user))
Cancel(i, user) == Live(i) /\ Respond(cancel(i, user))
UpdateStatus(i, user, value) == Live(i) /\ Respond(update_status(i, user, value))
Destroy(i, user) == Live(i) /\ Respond(destroy(i, user))

\* get_object() answers 404 before the body is read: the body of a request on
\* a booking its user cannot see is irrelevant.
BodiesFor(i, user) ==
    IF Visible(i, user) THEN UpdateRequests
    ELSE {[listing_id |-> NoValue, start_date |-> NoDate, end_date |-> NoDate, status |-> NoValue]}

Next ==
    \/ \E user \in Bookers, data \in CreateRequests : Create(user, data)
    \/ \E i \in BookingIds, user \in Users : Confirm(i, user)
    \/ \E i \in BookingIds, user \in Users : Cancel(i, user)
    \/ \E i \in BookingIds, user \in UpdateActors, value \in StatusUpdateChoices : UpdateStatus(i, user, value)
    \/ \E i \in BookingIds, user \in UpdateActors : \E data \in BodiesFor(i, user) : Update(i, user, data)
    \/ \E i \in BookingIds, user \in UpdateActors : Destroy(i, user)

Spec == Init /\ [][Next]_vars

\* The create requests that leave the status to the model's default.
DefaultStatusRequests == {data \in CreateRequests : data.status = NoValue}

\* The status operations alone: bookings are created pending and then only
\* confirmed, cancelled or status-updated.
LifecycleNext ==
    \/ \E user \in Bookers, data \in DefaultStatusRequests : Create(user, data)
    \/ \E i \in BookingIds, user \in Users : Confirm(i, user)
    \/ \E i \in BookingIds, user \in Users : Cancel(i, user)
    \/ \E i \in BookingIds, user \in UpdateActors, value \in StatusUpdateChoices : UpdateStatus(i, user, value)

LifecycleSpec == Init /\ [][LifecycleNext]_vars

\* The update requests that carry no status: dates, a listing, or both.
EditRequests == {data \in UpdateRequests : data.status = NoValue}

\* Creates and edits alone: bookings are created with the default status and
\* their dates and listing are then updated (PUT and PATCH).
EditNext ==
    \/ \E user \in Bookers, data \in DefaultStatusRequests : Create(user, data)
    \/ \E i \in BookingIds, user \in UpdateActors :
          \E data \in BodiesFor(i, user) \cap EditRequests : Update(i, user, data)

EditSpec == Init /\ [][EditNext]_vars

\* ------------------------------------------------ concurrent create requests

\* serializer.is_valid() of request p: validate() reads the Booking table.
CreateValidate(p, user, data) ==
    /\ inflight[p].pc = "idle"
    /\ Len(bookings) + Cardinality({q \in 1..NumProcs : inflight[q].pc = "validated"}) < MaxBookings
    /\ result' = validate(data, 0)
    /\ inflight' = IF result' = "ok"
                   THEN [inflight EXCEPT ![p] = [pc |-> "validated", user |-> user, data |-> data]]
                   ELSE inflight
    /\ UNCHANGED <<bookings, payVars>>

\* perform_create of request p: serializer.save(guest=request.user) inserts the row.
CreateSave(p) ==
    /\ inflight[p].pc = "validated"
    /\ bookings' = Append(bookings, create(inflight[p].user, inflight[p].data))
    /\ inflight' = [inflight EXCEPT ![p] = [pc |-> "idle"]]
    /\ result' = "ok"
    /\ UNCHANGED payVars

RaceNext ==
    \/ \E p \in 1..NumProcs, user \in Bookers, data \in DefaultStatusRequests : CreateValidate(p, user, data)
    \/ \E p \in 1..NumProcs : CreateSave(p)

RaceSpec == Init /\ [][RaceNext]_vars

\* ------------------------------------------------------ payment coordinator

\* Two bookings of bob's, as Create and Confirm leave them.
PayBookings ==
    << [listing |-> "L1", guest |-> "bob", start_date |-> 1, end_date |-> 2,
        status |-> "pending", total_price |-> 2],
       [listing |-> "L2", guest |-> "bob", start_date |-> 1, end_date |-> 3,
        status |-> "confirmed", total_price |-> 6] >>

PayInit ==
    /\ bookings = PayBookings
    /\ result = "ok"
    /\ inflight = [p \in 1..NumProcs |-> [pc |-> "idle"]]
    /\ payments = <<>>
    /\ initiating = [p \in 1..NumProcs |-> [pc |-> "idle"]]
    /\ nextTx = 1
    /\ enqueued = <<>>
    /\ tasks = <<>>

\* request.user of the initiate requests: the guest and another user.
Payers == {"bob", "carol"}

\* What the gateway answers: an HTTP status code with the body's status, or no
\* answer at all (status code 0: requests raises).
GatewayResponses ==
    {[status_code |-> 200, status |-> "success"], [status_code |-> 200, status |-> "failed"],
     [status_code |-> 201, status |-> "success"], [status_code |-> 500, status |-> "error"],
     [status_code |-> 0, status |-> "unreachable"]}

PaymentIds == 1..Len(payments)
\* booking.payment, the reverse side of Payment.booking
PaymentsOf(booking_id) == {k \in PaymentIds : payments[k].booking = booking_id}

\* The existence check that counts only a payment still pending.
HasPayment_PendingOnly(booking_id) ==
    \E k \in PaymentsOf(booking_id) : payments[k].status = "pending"
\* hasattr(booking, 'payment')
HasPayment(booking_id) == PaymentsOf(booking_id) # {}

\* Payment.booking as a plain foreign key: the table takes any row.
InsertAllowed_ForeignKey(booking_id) == TRUE
\* The one-to-one reference Payment.booking: the table takes no second row for a booking.
InsertAllowed(booking_id) == PaymentsOf(booking_id) = {}

\* InitiatePaymentView.post up to the gateway call: the booking lookup and the
\* existence check; tx_ref is a fresh token. The response, and where request p
\* stands after it.
initiate_check(p, booking_id, user) ==
    IF ~(Live(booking_id) /\ bookings[booking_id].guest = user)
    THEN [result |-> "NotFound", initiating |-> initiating, nextTx |-> nextTx]
    ELSE IF HasPayment(booking_id)
    THEN [result |-> "PaymentAlreadyInitiated", initiating |-> initiating, nextTx |-> nextTx]
    ELSE [result |-> result,
          initiating |-> [initiating EXCEPT ![p] =
              [pc |-> "gateway", booking |-> booking_id,
               amount |-> bookings[booking_id].total_price, tx_ref |-> nextTx]],
          nextTx |-> nextTx + 1]

InitiateCheck(p, booking_id, user) ==
    /\ initiating[p].pc = "idle"
    /\ LET response == initiate_check(p, booking_id, user)
       IN  /\ response.nextTx <= MaxTx + 1
           /\ result' = response.result
           /\ initiating' = response.initiating
           /\ nextTx' = response.nextTx
    /\ UNCHANGED <<bookings, inflight, payments, enqueued, tasks>>

\* The status-code test that takes any HTTP answer for a created checkout.
CheckoutCreated_AnyHttp(response) == response.status_code # 0
\* InitiatePaymentView.post: the checkout session exists on status code 200.
CheckoutCreated(response) == response.status_code = 200

\* requests.post(.../transaction/initialize) returns, or raises: the response
\* of request p and where it stands after it. A call that raises and a call
\* the gateway answers with another status code both end as GatewayError.
initiate_gateway(p, response) ==
    IF CheckoutCreated(response)
    THEN [result |-> result, initiating |-> [initiating EXCEPT ![p].pc = "insert"]]
    ELSE [result |-> "GatewayError", initiating |-> [initiating EXCEPT ![p] = [pc |-> "idle"]]]

InitiateGateway(p, response) ==
    /\ initiating[p].pc = "gateway"
    /\ result' = initiate_gateway(p, response).result
    /\ initiating' = initiate_gateway(p, response).initiating
    /\ UNCHANGED <<bookings, inflight, payments, nextTx, enqueued, tasks>>

\* Payment.objects.create(booking, amount, transaction_id, status='pending'):
\* the response of request p and the Payment table it leaves.
initiate_insert(p) ==
    IF InsertAllowed(initiating[p].booking)
    THEN [result |-> "ok",
          payments |-> Append(payments,
              [booking |-> initiating[p].booking, amount |-> initiating[p].amount,
               transaction_id |-> initiating[p].tx_ref, status |-> "pending"])]
    ELSE [result |-> "IntegrityError", payments |-> payments]

InitiateInsert(p) ==
    /\ initiating[p].pc = "insert"
    /\ result' = initiate_insert(p).result
    /\ payments' = initiate_insert(p).payments
    /\ initiating' = [initiating EXCEPT ![p] = [pc |-> "idle"]]
    /\ UNCHANGED <<bookings, inflight, nextTx, enqueued, tasks>>

\* Payment.objects.get(transaction_id=tx_ref)
PaymentByRef(tx_ref) == {k \in PaymentIds : payments[k].transaction_id = tx_ref}

\* The status-code test that takes any HTTP answer for an answer.
GatewayAnswered_AnyHttp(response) == response.status_code # 0
\* VerifyPaymentView.get: the gateway call counts as answered on status code 200.
GatewayAnswered(response) == response.status_code = 200

\* What VerifyPaymentView.get stores for a gateway answer with status code 200.
VerifiedStatus(response) == IF response.status = "success" THEN "completed" ELSE "failed"
\* Whether it then sends the confirmation: send_booking_confirmation.delay(...)
SendsConfirmation(response) == response.status = "success"

\* VerifyPaymentView.get: the response, the Payment table and the task queue
\* it leaves. A call that raises (no answer from the gateway) and a call the
\* gateway answers with another status code both end as GatewayError.
verify(tx_ref, response) ==
    IF PaymentByRef(tx_ref) = {}
    THEN [result |-> "PaymentNotFound", payments |-> payments, enqueued |-> enqueued]
    ELSE LET k == CHOOSE k \in PaymentByRef(tx_ref) : TRUE
         IN  IF ~GatewayAnswered(response)
             THEN [result |-> "GatewayError", payments |-> payments, enqueued |-> enqueued]
             ELSE [result |-> VerifiedStatus(response),
                   payments |-> [payments EXCEPT ![k].status = VerifiedStatus(response)],
                   enqueued |-> IF SendsConfirmation(response)
                                THEN Append(enqueued, payments[k].booking)
                                ELSE enqueued]

\* task.delay(booking_id): the broker's queue with one more task, not yet run.
delay(task, booking_id) ==
    Append(tasks, [task |-> task, booking |-> booking_id, state |-> "PENDING",
                   retries |-> 0, countdown |-> 0])

Verify(tx_ref, response) ==
    /\ Len(verify(tx_ref, response).enqueued) <= MaxEnqueued
    /\ result' = verify(tx_ref, response).result
    /\ payments' = verify(tx_ref, response).payments
    /\ enqueued' = verify(tx_ref, response).enqueued
    /\ tasks' = IF enqueued' # enqueued
                THEN delay("send_booking_confirmation", enqueued'[Len(enqueued')])
                ELSE tasks
    /\ UNCHANGED <<bookings, inflight, initiating, nextTx>>

PayNext ==
    \/ \E p \in 1..NumProcs, booking_id \in BookingIds \cup {Len(bookings) + 1}, user \in Payers : InitiateCheck(p, booking_id, user)
    \/ \E p \in 1..NumProcs, response \in GatewayResponses : InitiateGateway(p, response)
    \/ \E p \in 1..NumProcs : InitiateInsert(p)
    \/ \E tx_ref \in 1..MaxTx, response \in GatewayResponses : Verify(tx_ref, response)

PaySpec == PayInit /\ [][PayNext]_vars

\* --------------------------------------------------- notification dispatcher

\* The two confirmation tasks: send_booking_confirmation, which verify
\* enqueues, and send_booking_confirmation_email, the task with the retry policy.
TaskNames == {"send_booking_confirmation", "send_booking_confirmation_email"}
\* What a run of a task does: the mail is sent, or an exception is raised.
TaskOutcomes == {"sent", "raised"}

\* self.retry(exc=exc, countdown=60, max_retries=3)
max_retries == 3
retry_countdown == 60

\* The retry test that never gives up.
RetryExhausted_Never(retries) == FALSE
\* Task.retry: the retry that would be number max_retries + 1 raises exc instead.
RetryExhausted(retries) == retries > max_retries

\* self.retry of send_booking_confirmation_email, called from its except clause.
retry(t) ==
    LET retries == t.retries + 1
    IN  IF RetryExhausted(retries)
        THEN [t EXCEPT !.state = "FAILURE"]
        ELSE [t EXCEPT !.state = "RETRY", !.retries = retries, !.countdown = retry_countdown]

\* One run of a task by a worker. send_booking_confirmation has no except
\* clause and no retry policy: an exception ends it. Neither task writes a
\* Booking or a Payment.
run(t, outcome) ==
    IF outcome = "sent" THEN [t EXCEPT !.state = "SUCCESS"]
    ELSE IF t.task = "send_booking_confirmation_email" THEN retry(t)
    ELSE [t EXCEPT !.state = "FAILURE"]

\* The tasks a worker still has to run.
Runnable(n) == n \in 1..Len(tasks) /\ tasks[n].state \in {"PENDING", "RETRY"}

RunTask(n, outcome) ==
    /\ Runnable(n)
    /\ tasks' = [tasks EXCEPT ![n] = run(tasks[n], outcome)]
    /\ UNCHANGED <<bookings, result, inflight, payments, initiating, nextTx, enqueued>>

\* send_booking_confirmation_email.delay(booking_id, ...): the callers of the
\* task are outside this code; any of them enqueues it so.
DelayEmail(booking_id) ==
    /\ Len(tasks) < MaxTasks
    /\ tasks' = delay("send_booking_confirmation_email", booking_id)
    /\ UNCHANGED <<bookings, result, inflight, payments, initiating, nextTx, enqueued>>

\* One payer's payment, its verification, and the workers of the task queue.
NotifyNext ==
    \/ \E booking_id \in BookingIds : InitiateCheck(1, booking_id, bookings[booking_id].guest)
    \/ InitiateGateway(1, [status_code |-> 200, status |-> "success"])
    \/ InitiateInsert(1)
    \/ \E tx_ref \in 1..MaxTx, response \in GatewayResponses : Len(tasks) < MaxTasks /\ Verify(tx_ref, response)
    \/ \E booking_id \in BookingIds : DelayEmail(booking_id)
    \/ \E n \in 1..MaxTasks, outcome \in TaskOutcomes : RunTask(n, outcome)

NotifySpec == PayInit /\ [][NotifyNext]_vars

\* ------------------------------------------------------------------ claims

Active(i) == i \in BookingIds /\ bookings[i].status \in {"pending", "confirmed"}
\* The nights of the half-open interval [start_date, end_date) of booking i.
Nights(i) == {d \in Days : bookings[i].start_date <= d /\ d < bookings[i].end_date}

\* C1: in every state the booking operations reach, no two distinct pending or
\* confirmed bookings of one listing have intersecting [start_date, end_date):
\* no night of a listing belongs to two active bookings.
C1_NoActiveOverlap ==
    \A l \in Listings, d \in Days :
        Cardinality({i \in BookingIds : Active(i) /\ bookings[i].listing = l /\ d \in Nights(i)}) <= 1

\* C2: a create request that is otherwise valid fails with DateConflict, and
\* persists nothing, exactly when an existing pending or confirmed booking of
\* the listing has existing.start < end and existing.end > start; a request that
\* only touches an existing booking, or meets only cancelled or completed ones,
\* is persisted.
C2_Blocking(data) ==
    \E i \in BookingIds :
        /\ bookings[i].listing = data.listing_id
        /\ bookings[i].status \in {"pending", "confirmed"}
        /\ bookings[i].start_date < data.end_date
        /\ bookings[i].end_date > data.start_date
C2_Bookable(data) ==
    /\ data.start_date < data.end_date
    /\ data.listing_id \in Listings
    /\ ListingRow(data.listing_id).availability
C2_CreateConflict ==
    \A user \in Bookers, data \in CreateRequests :
        LET response == perform_create(user, data)
        IN  /\ response.result = "DateConflict" <=> (C2_Bookable(data) /\ C2_Blocking(data))
            /\ response.result = "DateConflict" => response.bookings = bookings
            /\ (C2_Bookable(data) /\ ~C2_Blocking(data)) =>
                  /\ response.result = "ok"
                  /\ Len(response.bookings) = Len(bookings) + 1
\* A create request was refused with DateConflict against the one booking there is.
C2_Witness ==
    /\ Len(bookings) = 1
    /\ Active(1)
    /\ result = "DateConflict"

\* C3: of two concurrent create requests for one listing with overlapping dates
\* at most one is persisted with an active status.
C3_AtMostOneInserted ==
    \A i, j \in BookingIds :
        (/\ i < j
         /\ bookings[i].listing = bookings[j].listing
         /\ bookings[i].start_date < bookings[j].end_date
         /\ bookings[j].start_date < bookings[i].end_date)
        => ~(Active(i) /\ Active(j))

\* C4: the status of a booking changes only along pending->confirmed,
\* pending->cancelled and confirmed->cancelled.
C4_Edges == {<<"pending", "confirmed">>, <<"pending", "cancelled">>, <<"confirmed", "cancelled">>}
C4_OnlyLegalEdges ==
    [][\A i \in BookingIds :
          (Live(i) /\ bookings'[i].status # "deleted" /\ bookings'[i].status # bookings[i].status)
          => <<bookings[i].status, bookings'[i].status>> \in C4_Edges]_vars

\* C5 as stated: confirm by anyone but the listing's host, and cancel by anyone
\* but the guest and the host, fails with Forbidden and changes no booking.
C5_Host(i, user) == ListingRow(bookings[i].listing).host = user
C5_Guest(i, user) == bookings[i].guest = user
C5_ForbiddenForOthers ==
    \A i \in BookingIds, user \in Users :
        Live(i) =>
            /\ ~C5_Host(i, user)
                  => confirm(i, user) = [result |-> "Forbidden", bookings |-> bookings]
            /\ (~C5_Host(i, user) /\ ~C5_Guest(i, user))
                  => cancel(i, user) = [result |-> "Forbidden", bookings |-> bookings]

\* C5 as amended: confirm by anyone but the listing's host, and cancel by anyone
\* but the guest and the host, changes no booking and fails: with Forbidden
\* when the actor is the booking's guest or a staff user, with NotFound when the
\* actor is a user get_queryset hides the booking from.
C5_Refusal(i, user) ==
    IF user \in Staff \/ C5_Guest(i, user) \/ C5_Host(i, user) THEN "Forbidden" ELSE "NotFound"
C5_Authorization ==
    \A i \in BookingIds, user \in Users :
        Live(i) =>
            /\ ~C5_Host(i, user)
                  => confirm(i, user) = [result |-> C5_Refusal(i, user), bookings |-> bookings]
            /\ (~C5_Host(i, user) /\ ~C5_Guest(i, user))
                  => cancel(i, user) = [result |-> C5_Refusal(i, user), bookings |-> bookings]
\* A confirm or cancel request was refused with Forbidden and the booking is
\* still pending.
C5_Witness ==
    /\ result = "Forbidden"
    /\ \E i \in BookingIds : bookings[i].status = "pending"

\* C6: each booking has at most one Payment, and an initiate request for a
\* booking that has one, whatever its status, is refused with
\* PaymentAlreadyInitiated before the gateway is called: the request does not
\* go on to the gateway call and takes no transaction reference.
C6_SecondInitiateRefused ==
    /\ \A booking_id \in BookingIds : Cardinality(PaymentsOf(booking_id)) <= 1
    /\ \A p \in 1..NumProcs, k \in PaymentIds :
          LET booking_id == payments[k].booking
              response == initiate_check(p, booking_id, bookings[booking_id].guest)
          IN  /\ response.result = "PaymentAlreadyInitiated"
              /\ response.initiating = initiating
              /\ response.nextTx = nextTx
\* An initiate request for a booking whose payment is completed was refused.
C6_Witness ==
    /\ result = "PaymentAlreadyInitiated"
    /\ \E k \in PaymentIds : payments[k].status = "completed"

\* C7: under any interleaving of concurrent initiate requests for one booking
\* (check, gateway call, insert) the Payment table holds at most one row of
\* that booking.
C7_OnePaymentPerBooking ==
    \A k1, k2 \in PaymentIds : payments[k1].booking = payments[k2].booking => k1 = k2
\* Two requests passed the existence check and the second insert was refused.
C7_Witness ==
    /\ result = "IntegrityError"
    /\ Len(payments) >= 1

\* C8: a Payment that is completed or failed keeps its status.
C8_TerminalStatus ==
    [][\A k \in PaymentIds :
          payments[k].status \in {"completed", "failed"}
          => payments'[k].status = payments[k].status]_vars

\* C9: over all the verify calls for a payment exactly one confirmation is
\* enqueued for its booking once it is completed, and none before.
C9_Confirmations(booking_id) ==
    Cardinality({n \in 1..Len(enqueued) : enqueued[n] = booking_id})
C9_ExactlyOneConfirmation ==
    \A k \in PaymentIds :
        /\ C9_Confirmations(payments[k].booking) <= 1
        /\ payments[k].status = "completed" => C9_Confirmations(payments[k].booking) = 1

\* C10: a verify call for a known transaction whose gateway call fails (no
\* answer, or a status code outside 2xx) ends as GatewayError and leaves the
\* Payment table and the task queue as they were; and whenever a payment is
\* pending (so also after such a failure) a verify call the gateway answers
\* moves it to completed or failed.
C10_CallFailed(response) == response.status_code < 200 \/ response.status_code > 299
C10_GatewayErrorLeavesPending ==
    \A k \in PaymentIds, response \in GatewayResponses :
        LET out == verify(payments[k].transaction_id, response)
        IN  /\ C10_CallFailed(response)
                => out = [result |-> "GatewayError", payments |-> payments, enqueued |-> enqueued]
            /\ (payments[k].status = "pending" /\ response.status_code = 200)
                => out.payments[k].status =
                       (IF response.status = "success" THEN "completed" ELSE "failed")
\* The one payment there is was verified, the gateway call failed, and the
\* payment is still pending.
C10_Witness ==
    /\ result = "GatewayError"
    /\ Len(payments) = 1
    /\ nextTx = 2
    /\ payments[1].status = "pending"

\* C11: an initiate request whose gateway call fails (no answer, or a status
\* code outside 2xx) ends as GatewayError before the insert, so no Payment is
\* persisted and a later initiate for the booking, still without a Payment, is
\* not refused with PaymentAlreadyInitiated (it draws its transaction reference
\* and goes on to the gateway); a request the gateway answers with
\* 200 goes on to the insert, after which the booking has exactly one Payment,
\* of amount booking.total_price, and the row just inserted is pending.
C11_NonSuccess(response) == response.status_code < 200 \/ response.status_code > 299
C11_RowsOf(table, booking_id) == {k \in 1..Len(table) : table[k].booking = booking_id}
C11_InitiateOutcome ==
    \A p \in 1..NumProcs :
        /\ initiating[p].pc = "gateway" =>
              \A response \in GatewayResponses :
                  LET out == initiate_gateway(p, response)
                      booking_id == initiating[p].booking
                  IN  /\ C11_NonSuccess(response) =>
                            /\ out.result = "GatewayError"
                            /\ out.initiating[p].pc = "idle"
                            /\ PaymentsOf(booking_id) = {} =>
                                  initiate_check(p, booking_id, bookings[booking_id].guest).nextTx
                                      = nextTx + 1
                      /\ response.status_code = 200 =>
                            /\ out.initiating[p].pc = "insert"
                            /\ out.initiating[p].amount = bookings[booking_id].total_price
        /\ initiating[p].pc = "insert" =>
              LET out == initiate_insert(p)
                  booking_id == initiating[p].booking
              IN  /\ Cardinality(C11_RowsOf(out.payments, booking_id)) = 1
                  /\ \A k \in C11_RowsOf(out.payments, booking_id) :
                        out.payments[k].amount = bookings[booking_id].total_price
                  /\ out.result = "ok" =>
                        /\ Len(out.payments) = Len(payments) + 1
                        /\ out.payments[Len(out.payments)] =
                              [booking |-> booking_id, amount |-> bookings[booking_id].total_price,
                               transaction_id |-> initiating[p].tx_ref, status |-> "pending"]
\* The first initiate failed at the gateway and persisted nothing; the second
\* one, with the next transaction reference, left the one pending Payment.
C11_Witness ==
    /\ result = "ok"
    /\ \A p \in 1..NumProcs : initiating[p].pc = "idle"
    /\ Len(payments) = 1
    /\ payments[1].transaction_id = 2
    /\ payments[1].status = "pending"
    /\ payments[1].amount = bookings[payments[1].booking].total_price

\* C12: a create leaves the new booking with total_price = price_per_night x
\* (end_date - start_date), and an update that carries a date (a date update),
\* applied to a booking whose price is so, leaves it so.
C12_Priced(b) ==
    b.total_price = ListingRow(b.listing).price_per_night * (b.end_date - b.start_date)
C12_DateUpdates == {data \in EditRequests : data.start_date # NoDate \/ data.end_date # NoDate}
C13_DatesOrdered ==
    \A i \in BookingIds :
        Live(i) =>
            /\ bookings[i].start_date < bookings[i].end_date
            /\ bookings[i].end_date - bookings[i].start_date <= MaxSpanDays

\* C14: a create request whose number_of_guests exceeds the listing's
\* max_guests is refused with CapacityExceeded and persists nothing.
C14_GuestCounts == {1, 2, 4, 6}
C14_Request(data, n) ==
    [listing_id |-> data.listing_id, start_date |-> data.start_date,
     end_date |-> data.end_date, status |-> data.status, number_of_guests |-> n]
C14_CapacityEnforced ==
    \A user \in Bookers, data \in DefaultStatusRequests, n \in C14_GuestCounts :
        (data.listing_id \in Listings /\ n > ListingRow(data.listing_id).max_guests) =>
            perform_create(user, C14_Request(data, n))
                = [result |-> "CapacityExceeded", bookings |-> bookings]

\* C15: an update of a booking's dates to a valid range, with the listing id
\* left out or resent as it is, fails with DateConflict and changes nothing
\* when the range intersects another pending or confirmed booking of the
\* listing, and succeeds when it intersects none but the booking's own.
C15_Others(i, data) ==
    {j \in BookingIds \ {i} :
        /\ bookings[j].listing = bookings[i].listing
        /\ bookings[j].status \in {"pending", "confirmed"}
        /\ bookings[j].start_date < data.end_date
        /\ bookings[j].end_date > data.start_date}
C15_Moves(i) ==
    {data \in EditRequests :
        /\ data.listing_id \in {NoValue, bookings[i].listing}
        /\ data.start_date # NoDate /\ data.end_date # NoDate
        /\ data.start_date < data.end_date}
C15_UpdateRechecksConflicts ==
    \A i \in BookingIds :
        Live(i) =>
            \A data \in C15_Moves(i) :
                LET out == perform_update(i, bookings[i].guest, data)
                IN  IF C15_Others(i, data) # {}
                    THEN out = [result |-> "DateConflict", bookings |-> bookings]
                    ELSE out.result = "ok"

\* C16: a confirmation task is retried at most 3 times, each time with the
\* delay of 60 seconds, and a task that succeeded or failed for good is never
\* run again: a failure after the third retry is final. No run of a task,
\* whether it succeeds, is retried or fails, changes a Payment or a Booking.
C16_BoundedRetries ==
    [][/\ \A n \in 1..Len(tasks') :
             /\ tasks'[n].retries <= 3
             /\ tasks'[n].state = "RETRY" => tasks'[n].countdown = 60
       /\ \A n \in 1..Len(tasks) :
             /\ tasks[n].state \in {"SUCCESS", "FAILURE"} => tasks'[n] = tasks[n]
             /\ tasks'[n] # tasks[n] =>
                   /\ payments' = payments
                   /\ bookings' = bookings
                   /\ tasks[n].retries = 3 => tasks'[n].state \in {"SUCCESS", "FAILURE"}]_vars
\* The confirmation verify enqueued for a completed payment failed, and a
\* confirmation e-mail failed for good after its third retry; the payment is
\* still completed.
C16_Witness ==
    /\ \E n \in 1..Len(tasks), k \in PaymentIds :
          /\ tasks[n].task = "send_booking_confirmation"
          /\ tasks[n].state = "FAILURE"
          /\ payments[k].booking = tasks[n].booking
          /\ payments[k].status = "completed"
    /\ \E n \in 1..Len(tasks) :
          /\ tasks[n].task = "send_booking_confirmation_email"
          /\ tasks[n].state = "FAILURE"
          /\ tasks[n].retries = 3

\* C17: no booking operation removes a booking record.
C17_NeverDeleted == \A i \in BookingIds : bookings[i].status # "deleted"

\* C18: a create request with the default status, for a bookable listing and
\* a valid range that intersects a cancelled booking of the listing and no
\* pending or confirmed one, is accepted and persisted as pending.
C18_Intersecting(data, statuses) ==
    {i \in BookingIds :
        /\ bookings[i].listing = data.listing_id
        /\ bookings[i].status \in statuses
        /\ bookings[i].start_date < data.end_date
        /\ bookings[i].end_date > data.start_date}
C18_CancelReleasesDates ==
    \A user \in Bookers, data \in DefaultStatusRequests :
        (/\ data.listing_id \in Listings
         /\ ListingRow(data.listing_id).availability
         /\ data.start_date < data.end_date
         /\ C18_Intersecting(data, {"cancelled"}) # {}
         /\ C18_Intersecting(data, {"pending", "confirmed"}) = {})
        => LET out == perform_create(user, data)
           IN  /\ out.result = "ok"
               /\ Len(out.bookings) = Len(bookings) + 1
               /\ out.bookings[Len(out.bookings)].status = "pending"
               /\ out.bookings[Len(out.bookings)].listing = data.listing_id
               /\ out.bookings[Len(out.bookings)].start_date = data.start_date
               /\ out.bookings[Len(out.bookings)].end_date = data.end_date
\* The first booking was cancelled and a second one, pending, holds nights of
\* the same listing that the first one held.
C18_Witness ==
    /\ Len(bookings) = 2
    /\ result = "ok"
    /\ bookings[1].status = "cancelled"
    /\ bookings[2].status = "pending"
    /\ bookings[1].listing = bookings[2].listing
    /\ bookings[1].start_date < bookings[2].end_date
    /\ bookings[2].start_date < bookings[1].end_date
====
